---- MODULE Spec2Model ----
(***************************************************************************)
(* Verification model of the web client of the Riot API analyzer and of    *)
(* the analysis pipeline it talks to:                                      *)
(*   - analyzeStats (apps/web/lib/api.ts): the NDJSON stream consumer,     *)
(*   - Dashboard (summoner page): the component that drives analyzeStats,  *)
(*     its loading screen, error state and result view,                    *)
(*   - PlayerPerformanceTrends: the trend series and the summary figures,  *)
(*   - Home and SearchBar: the search form and its navigation,             *)
(*   - StatComparisonRow and ElectricMap,                                  *)
(*   - the analysis pipeline of the backend, as the specification          *)
(*     describes it.                                                       *)
(* The specifications of the module: SpecStream (one analyzeStats call     *)
(* over an arbitrary byte stream), SpecDash and FairSpecDash (the          *)
(* Dashboard and the requests it issues), SpecLoading (the loading         *)
(* screen), SpecTrend, SpecScores and SpecSummary (PlayerPerformanceTrends *)
(* over a match list), SpecHome (the Home page), SpecBar (a SearchBar on   *)
(* its own), SpecRow (a StatComparisonRow), SpecMap (the ElectricMap       *)
(* animation) and SpecPipe (one run of the pipeline).                      *)
(***************************************************************************)
EXTENDS Integers, Sequences, FiniteSets, TLC

VARIABLES
    req,        \* SpecStream: the state of one analyzeStats invocation
    reqs,       \* SpecDash: the analyzeStats invocations issued by the Dashboard
    dash,       \* SpecDash: the Dashboard's React state and route parameters
    data,       \* SpecTrend: the array behind the `data` prop (newest first)
    chartData,  \* SpecTrend: the memoised trend series
    rendered,   \* SpecTrend: whether the component has rendered
    home,       \* SpecHome: the Home page, its SearchBar and the router
    pipe,       \* SpecPipe: one run of the analysis pipeline of the backend
    view,       \* what the component under study rendered last
    props,      \* the props the component under study was given
    anim        \* SpecMap: the ElectricMap effect and the browser's frame queue

vars == <<req, reqs, dash, data, chartData, rendered, home, pipe, view, props, anim>>

(***************************************************************************)
(* Bounds                                                                  *)
(***************************************************************************)
MaxLines == 3      \* lines in a stream of SpecStream
MaxChunk == 5      \* characters delivered by one reader.read()
MaxMatches == 6    \* matches in the `data` prop of SpecTrend
MaxScored == 2     \* matches in the `data` prop of SpecScores
MaxNav == 1        \* route changes of the Dashboard in SpecDash
MaxIdLen == 2      \* characters of a Riot ID typed into the search input
MaxSubmits == 2    \* searches run on the Home page in SpecHome
MaxHistory == 6    \* matches in the history given to the pipeline of SpecPipe
MaxRenders == 2    \* renders of PlayerPerformanceTrends in one run
MaxGames == 2      \* matches in the `data` prop of SpecSummary
MaxStat == 10      \* largest stat value of SpecRow, in hundredths
MaxFrames == 10    \* animation frames the browser delivers in SpecMap

(***************************************************************************)
(* Characters and lines of the stream.  The stream is a sequence of        *)
(* characters; a JSON event is written as "{", one payload character       *)
(* standing for the members of the object, "}".                            *)
(***************************************************************************)
NL == "nl"      \* "\n"
SP == "sp"      \* a whitespace character other than "\n"
LB == "lb"      \* "{"
RB == "rb"      \* "}"
GX == "x"       \* any other character

PayloadChars == {"p10", "p50", "rA", "eX", "eY"}

StreamEndedMsg == "Stream ended without receiving analysis result"
JsonSyntaxMsg == "Unexpected token 'I', \"Internal S\"... is not valid JSON"
FailedMsg == "Failed to analyze stats"
NoBodyMsg == "No response body"

\* The object a payload character stands for.
EventOf(c) ==
    CASE c = "p10" -> [type |-> "progress", message |-> "Loading Match History", percent |-> 10, data |-> ""]
      [] c = "p50" -> [type |-> "progress", message |-> "Processing matches", percent |-> 50, data |-> ""]
      [] c = "rA"  -> [type |-> "result", message |-> "", percent |-> 0, data |-> "analysisA"]
      [] c = "eX"  -> [type |-> "error", message |-> "No ranked matches found", percent |-> 0, data |-> ""]
      [] c = "eY"  -> [type |-> "error", message |-> "Failed to fetch match data", percent |-> 0, data |-> ""]
      [] OTHER     -> [type |-> "", message |-> "", percent |-> 0, data |-> ""]

\* JSON.parse(line): succeeds on "{" payload "}" and on "{}", throws otherwise.
JSONParse(line) ==
    IF Len(line) = 3 /\ line[1] = LB /\ line[3] = RB /\ line[2] \in PayloadChars
    THEN [ok |-> TRUE, event |-> EventOf(line[2])]
    ELSE IF line = <<LB, RB>>
    THEN [ok |-> TRUE, event |-> EventOf("")]
    ELSE [ok |-> FALSE, event |-> EventOf("")]

\* String.prototype.trim
IsSpace(c) == c \in {SP, NL}

RECURSIVE TrimStart(_)
TrimStart(s) ==
    IF s # <<>> /\ IsSpace(Head(s)) THEN TrimStart(Tail(s)) ELSE s

RECURSIVE TrimEnd(_)
TrimEnd(s) ==
    IF s # <<>> /\ IsSpace(s[Len(s)]) THEN TrimEnd(SubSeq(s, 1, Len(s) - 1)) ELSE s

Trim(s) == TrimEnd(TrimStart(s))

\* buffer.indexOf("\n"), 1-based; 0 stands for -1
RECURSIVE IndexOfNewlineFrom(_, _)
IndexOfNewlineFrom(buffer, i) ==
    IF i > Len(buffer) THEN 0
    ELSE IF buffer[i] = NL THEN i
    ELSE IndexOfNewlineFrom(buffer, i + 1)

IndexOfNewline(buffer) == IndexOfNewlineFrom(buffer, 1)

\* Mutant of OnProgressArg: the percent is read from a member the event
\* does not have.
OnProgressArg_NoPercent(event) == [message |-> event.message, percent |-> 0]

\* Mutant of OnProgressArg: the remaining percentage is passed on.
OnProgressArg_Remaining(event) ==
    [message |-> event.message, percent |-> 100 - event.percent]

\* The argument analyzeStats passes to onProgress.
OnProgressArg(event) == [message |-> event.message, percent |-> event.percent]

Resolved(v) == [kind |-> "resolved", value |-> v]
Rejected(m) == [kind |-> "rejected", value |-> m]
Pending == [kind |-> "pending", value |-> ""]

\* Mutant of HandleLine: a line that does not parse ends the call (the
\* catch clause returns).
HandleLine_InvalidReturns(line, calls, hasOnProgress) ==
    LET p == JSONParse(line) IN
    IF ~p.ok
    THEN [calls |-> calls, returned |-> TRUE, value |-> ""]
    ELSE IF p.event.type = "progress" /\ hasOnProgress
    THEN [calls |-> Append(calls, OnProgressArg(p.event)), returned |-> FALSE, value |-> ""]
    ELSE IF p.event.type = "result"
    THEN [calls |-> calls, returned |-> TRUE, value |-> p.event.data]
    ELSE [calls |-> calls, returned |-> FALSE, value |-> ""]

(***************************************************************************)
(* The body of the inner try block for one non-empty line.  A throw inside *)
(* the block (JSON.parse, or the `error` branch) is caught by the catch    *)
(* clause of the same block, which is empty.                               *)
(***************************************************************************)
HandleLine(line, calls, hasOnProgress) ==
    LET p == JSONParse(line) IN
    IF ~p.ok
    THEN [calls |-> calls, returned |-> FALSE, value |-> ""]
    ELSE IF p.event.type = "progress" /\ hasOnProgress
    THEN [calls |-> Append(calls, OnProgressArg(p.event)), returned |-> FALSE, value |-> ""]
    ELSE IF p.event.type = "result"
    THEN [calls |-> calls, returned |-> TRUE, value |-> p.event.data]
    ELSE [calls |-> calls, returned |-> FALSE, value |-> ""]

\* while ((newlineIndex = buffer.indexOf("\n")) !== -1) { ... }
RECURSIVE ProcessLines(_, _, _)
ProcessLines(buffer, calls, hasOnProgress) ==
    LET newlineIndex == IndexOfNewline(buffer) IN
    IF newlineIndex = 0
    THEN [buffer |-> buffer, calls |-> calls, returned |-> FALSE, value |-> ""]
    ELSE LET line == Trim(SubSeq(buffer, 1, newlineIndex - 1))
             rest == SubSeq(buffer, newlineIndex + 1, Len(buffer))
             h    == HandleLine(line, calls, hasOnProgress)
         IN  IF line = <<>>
             THEN ProcessLines(rest, calls, hasOnProgress)
             ELSE IF h.returned
             THEN [buffer |-> rest, calls |-> h.calls, returned |-> TRUE, value |-> h.value]
             ELSE ProcessLines(rest, h.calls, hasOnProgress)

\* Mutant of FinalBuffer: the final throw is missing, the function returns
\* undefined.
FinalBuffer_NoThrow(buffer) ==
    LET p == JSONParse(Trim(buffer)) IN
    IF Trim(buffer) # <<>> /\ p.ok /\ p.event.type = "result"
    THEN Resolved(p.event.data)
    ELSE Resolved("")

\* The code after the read loop: the remaining buffer, then the final throw.
FinalBuffer(buffer) ==
    LET p == JSONParse(Trim(buffer)) IN
    IF Trim(buffer) # <<>> /\ p.ok /\ p.event.type = "result"
    THEN Resolved(p.event.data)
    ELSE Rejected(StreamEndedMsg)

(***************************************************************************)
(* One analyzeStats invocation.                                            *)
(*   pc: "fetch" (awaiting fetch), "read" (awaiting reader.read()),        *)
(*       "settled" (the promise is resolved or rejected)                   *)
(***************************************************************************)
\* json: whether response.json() can parse the body (an error page of a
\* proxy or the plain-text "Internal Server Error" of the server cannot);
\* detail: the `detail` member of the parsed body, "" when it has none.
Responses ==
    { [ok |-> TRUE,  body |-> TRUE,  json |-> FALSE, detail |-> ""],
      [ok |-> TRUE,  body |-> FALSE, json |-> FALSE, detail |-> ""],
      [ok |-> FALSE, body |-> TRUE,  json |-> TRUE,  detail |-> ""],
      [ok |-> FALSE, body |-> TRUE,  json |-> TRUE,  detail |-> "Player not found"],
      [ok |-> FALSE, body |-> TRUE,  json |-> FALSE, detail |-> ""],
      [ok |-> FALSE, body |-> FALSE, json |-> FALSE, detail |-> ""] }

NoResponse == [ok |-> FALSE, body |-> FALSE, json |-> FALSE, detail |-> "-"]

\* split and emptyChunk record how the stream was cut so far: whether a
\* read left part of a line in the buffer, and whether a read delivered an
\* empty chunk.
NewRequest(content, hasOnProgress, params) ==
    [content |-> content, hasOnProgress |-> hasOnProgress, params |-> params,
     pc |-> "fetch", posts |-> 1, response |-> NoResponse,
     pos |-> 0, buffer |-> <<>>, calls |-> <<>>,
     outcome |-> Pending, eof |-> FALSE, streamed |-> FALSE, stalled |-> FALSE,
     split |-> FALSE, emptyChunk |-> FALSE]

\* Mutant of AnalyzeFetch: a response that is not ok is retried once.
AnalyzeFetch_Retry(r, resp) ==
    IF ~resp.ok /\ r.posts < 2
    THEN [r EXCEPT !.posts = r.posts + 1]
    ELSE IF ~resp.ok /\ ~resp.json
    THEN [r EXCEPT !.response = resp, !.pc = "settled", !.outcome = Rejected(JsonSyntaxMsg)]
    ELSE IF ~resp.ok
    THEN [r EXCEPT !.response = resp, !.pc = "settled",
                   !.outcome = Rejected(IF resp.detail # "" THEN resp.detail ELSE FailedMsg)]
    ELSE IF ~resp.body
    THEN [r EXCEPT !.response = resp, !.pc = "settled", !.outcome = Rejected(NoBodyMsg)]
    ELSE [r EXCEPT !.response = resp, !.pc = "read", !.streamed = TRUE]

\* await fetch(...), the response checks and the reader set-up; the POST
\* itself was issued when the request was created (posts = 1).  When the
\* response is not ok, `await response.json()` runs first: it throws a
\* SyntaxError on a body that is not JSON (an empty body included), and the
\* outer catch rethrows it.
AnalyzeFetch(r, resp) ==
    IF ~resp.ok /\ ~resp.json
    THEN [r EXCEPT !.response = resp, !.pc = "settled", !.outcome = Rejected(JsonSyntaxMsg)]
    ELSE IF ~resp.ok
    THEN [r EXCEPT !.response = resp, !.pc = "settled",
                   !.outcome = Rejected(IF resp.detail # "" THEN resp.detail ELSE FailedMsg)]
    ELSE IF ~resp.body
    THEN [r EXCEPT !.response = resp, !.pc = "settled", !.outcome = Rejected(NoBodyMsg)]
    ELSE [r EXCEPT !.response = resp, !.pc = "read", !.streamed = TRUE]

\* Mutant of AnalyzeRead: the chunk replaces the buffer (`buffer = ...`
\* for `buffer += ...`), so the part of a line read earlier is lost.
AnalyzeRead_NoCarry(r, n) ==
    LET value == SubSeq(r.content, r.pos + 1, r.pos + n)
        pl    == ProcessLines(value, r.calls, r.hasOnProgress)
    IN  IF pl.returned
        THEN [r EXCEPT !.pos = r.pos + n, !.buffer = pl.buffer, !.calls = pl.calls,
                       !.pc = "settled", !.outcome = Resolved(pl.value)]
        ELSE [r EXCEPT !.pos = r.pos + n, !.buffer = pl.buffer, !.calls = pl.calls]

\* One iteration of the read loop whose read() returned {done: false, value}
AnalyzeRead(r, n) ==
    LET value == SubSeq(r.content, r.pos + 1, r.pos + n)
        pl    == ProcessLines(r.buffer \o value, r.calls, r.hasOnProgress)
    IN  IF pl.returned
        THEN [r EXCEPT !.pos = r.pos + n, !.buffer = pl.buffer, !.calls = pl.calls,
                       !.pc = "settled", !.outcome = Resolved(pl.value)]
        ELSE [r EXCEPT !.pos = r.pos + n, !.buffer = pl.buffer, !.calls = pl.calls]

\* The iteration whose read() returned {done: true}, and the code after the loop
AnalyzeDone(r) ==
    LET pl == ProcessLines(r.buffer, r.calls, r.hasOnProgress) IN
    IF pl.returned
    THEN [r EXCEPT !.buffer = pl.buffer, !.calls = pl.calls, !.eof = TRUE,
                   !.pc = "settled", !.outcome = Resolved(pl.value)]
    ELSE [r EXCEPT !.buffer = pl.buffer, !.calls = pl.calls, !.eof = TRUE,
                   !.pc = "settled", !.outcome = FinalBuffer(pl.buffer)]

(***************************************************************************)
(* SpecStream: one invocation over an arbitrary stream                     *)
(***************************************************************************)
\* Two progress events, a result, two errors (one surrounded by blanks), a
\* whitespace-only line and a line that is not valid JSON.
LineTemplates ==
    { <<LB, "p10", RB>>, <<LB, "p50", RB>>, <<LB, "rA", RB>>,
      <<LB, "eX", RB>>, <<SP, LB, "eY", RB, SP>>, <<SP>>, <<LB, GX>> }

\* The characters of the stream: every line followed by "\n", except that
\* the last line is unterminated when terminated = FALSE.
RECURSIVE Join(_, _)
Join(lines, terminated) ==
    IF lines = <<>> THEN <<>>
    ELSE IF Len(lines) = 1
    THEN Head(lines) \o (IF terminated THEN <<NL>> ELSE <<>>)
    ELSE Head(lines) \o <<NL>> \o Join(Tail(lines), terminated)

NoParams == [riotId |-> "", region |-> ""]

\* The Dashboard's state: the route parameters, the dependencies of the last
\* effect run, and the useState cells (null is written "").  hist,
\* progressBy and dataBy record the parameter values seen so far and the
\* requests that last called setProgress and setData.
NoDeps == [riotId |-> "-", region |-> "-"]

InitialProgress == [message |-> "Initializing...", percent |-> 0]

NewDash(params) ==
    [params |-> params, deps |-> NoDeps, data |-> "", loading |-> TRUE,
     progress |-> InitialProgress, error |-> "",
     hist |-> <<params>>, progressBy |-> 0, dataBy |-> 0]

IdleDash == NewDash(NoParams)

\* The values of the variables a specification does not use.
IdleHome == [page |-> "none"]
IdlePipe == [stage |-> "none"]
NoView == [screen |-> "none"]
NoProps == [kind |-> "none"]
IdleAnim == [phase |-> "none"]

InitStream ==
    /\ view = NoView
    /\ props = NoProps
    /\ anim = IdleAnim
    /\ \E k \in 0..MaxLines : \E lines \in [1..k -> LineTemplates] :
       \E terminated \in BOOLEAN, hasOnProgress \in BOOLEAN :
            req = NewRequest(Join(lines, terminated), hasOnProgress, NoParams)
    /\ reqs = <<>>
    /\ dash = IdleDash
    /\ data = <<>>
    /\ chartData = <<>>
    /\ rendered = FALSE
    /\ home = IdleHome
    /\ pipe = IdlePipe

Fetch ==
    /\ req.pc = "fetch"
    /\ \E resp \in Responses : req' = AnalyzeFetch(req, resp)
    /\ UNCHANGED <<reqs, dash, data, chartData, rendered, home, pipe, view, props, anim>>

ReadChunk ==
    /\ req.pc = "read" /\ ~req.stalled
    /\ \E n \in 0..MaxChunk :
        /\ req.pos + n <= Len(req.content)
        /\ \E r2 \in {AnalyzeRead(req, n)} :
            req' = [r2 EXCEPT !.split = @ \/ (r2.pc = "read" /\ r2.buffer # <<>>),
                              !.emptyChunk = @ \/ n = 0]
    /\ UNCHANGED <<reqs, dash, data, chartData, rendered, home, pipe, view, props, anim>>

ReadDone ==
    /\ req.pc = "read" /\ ~req.stalled
    /\ req.pos = Len(req.content)
    /\ req' = AnalyzeDone(req)
    /\ UNCHANGED <<reqs, dash, data, chartData, rendered, home, pipe, view, props, anim>>

NextStream == Fetch \/ ReadChunk \/ ReadDone

SpecStream == InitStream /\ [][NextStream]_vars

(***************************************************************************)
(* PlayerPerformanceTrends.chartData                                       *)
(*                                                                         *)
(* A goldPerMinute member is [num |-> TRUE, v |-> n] for the number n and  *)
(* [num |-> FALSE, v |-> 0] for a value Number() turns into NaN (missing,  *)
(* or a non-numeric string).  Arithmetic is exact: the mean and the        *)
(* variance are kept as integers scaled by the window length, and the      *)
(* consistency score is represented by its integer part (which is 100     *)
(* exactly when the score is 100).                                         *)
(***************************************************************************)
WindowBack == 4        \* Math.max(0, idx - 4)
CvScale == 1000        \* cv * 1000
FullScore == 100       \* 100 - ...

NotANumber == [num |-> FALSE, v |-> 0]
Num(n) == [num |-> TRUE, v |-> n]

GoldValues == {NotANumber, Num(-1), Num(15), Num(16)}

\* Number(m.goldPerMinute) || 0
NumberOrZero(g) == IF g.num THEN g.v ELSE 0

Max(a, b) == IF a >= b THEN a ELSE b
Min(a, b) == IF a <= b THEN a ELSE b

\* Mutant of Reverse: the copy is not reversed.
Reverse_Missing(s) == s

\* [...data].reverse()
Reverse(s) == [i \in 1..Len(s) |-> s[Len(s) + 1 - i]]

\* Array.prototype.slice(begin, end) for 0 <= begin <= end, 0-based, end exclusive
Slice(s, begin, end) == SubSeq(s, begin + 1, Min(end, Len(s)))

\* Mutant of Window: the window reaches five games back.
Window_SixGames(reversed, idx) == Slice(reversed, Max(0, idx - 5), idx + 1)

\* reversed.slice(Math.max(0, idx - 4), idx + 1)
Window(reversed, idx) == Slice(reversed, Max(0, idx - WindowBack), idx + 1)

\* windowGold.reduce((a, b) => a + b, 0)
RECURSIVE SumOf(_)
SumOf(w) == IF w = <<>> THEN 0 ELSE Head(w) + SumOf(Tail(w))

\* windowGold.reduce((a, b) => a + Math.pow(b - mean, 2), 0), times the
\* square of the window length: b - mean = (n*b - sum) / n
RECURSIVE SumSqDev(_, _, _)
SumSqDev(w, n, sum) ==
    IF w = <<>> THEN 0
    ELSE (n * Head(w) - sum) * (n * Head(w) - sum) + SumSqDev(Tail(w), n, sum)

\* Mutant of Consistency: the guard `mean > 0 ? ... : 0` is missing, so a
\* window whose mean is not positive no longer scores 100.
Consistency_NoMeanGuard(windowGold) ==
    LET n    == Len(windowGold)
        sum  == SumOf(windowGold)
        sq   == SumSqDev(windowGold, n, sum) \div n
    IN  IF sum <= 0 THEN 0
        ELSE IF CvScale * CvScale * sq > FullScore * FullScore * sum * sum THEN 0
        ELSE FullScore -
             (CHOOSE p \in 0..FullScore :
                /\ CvScale * CvScale * sq <= p * p * sum * sum
                /\ p = 0 \/ CvScale * CvScale * sq > (p - 1) * (p - 1) * sum * sum)

(***************************************************************************)
(* mean = sum / n, variance = SumSqDev / n^3, stdDev = sqrt(variance),     *)
(* cv = mean > 0 ? stdDev / mean : 0, so that for mean > 0                 *)
(*     (cv * 1000)^2 = 1000^2 * (SumSqDev / n) / sum^2                     *)
(* (SumSqDev is a multiple of n).  The integer part of                     *)
(* Math.max(0, 100 - cv * 1000) is 100 - p for the least p in 0..100 with  *)
(* cv * 1000 <= p, and 0 when there is none.                               *)
(***************************************************************************)
Consistency(windowGold) ==
    LET n    == Len(windowGold)
        sum  == SumOf(windowGold)
        sq   == SumSqDev(windowGold, n, sum) \div n
    IN  IF sum <= 0 THEN FullScore
        ELSE IF CvScale * CvScale * sq > FullScore * FullScore * sum * sum THEN 0
        ELSE FullScore -
             (CHOOSE p \in 0..FullScore :
                /\ CvScale * CvScale * sq <= p * p * sum * sum
                /\ p = 0 \/ CvScale * CvScale * sq > (p - 1) * (p - 1) * sum * sum)

\* a || b for a member a that is a number or missing: a when it is truthy
\* (a number other than 0 and NaN), else b
OrElse(a, b) == IF a.num /\ a.v # 0 THEN a.v ELSE b

\* match.aggressionScore || ((match.damagePerMinute || 0) / 10); the
\* damagePerMinute values of the model are multiples of 10
Aggression(match) ==
    OrElse(match.aggressionScore, OrElse(match.damagePerMinute, 0) \div 10)

\* match.visionDominance || (match.visionScore || 0)
VisionDom(match) ==
    OrElse(match.visionDominance, OrElse(match.visionScore, 0))

\* The callback of reversed.map, idx 0-based
ChartPoint(reversed, idx) ==
    LET match      == reversed[idx + 1]
        window     == Window(reversed, idx)
        windowGold == [k \in 1..Len(window) |-> NumberOrZero(window[k].goldPerMinute)]
    IN  [matchId |-> match.matchId, goldPerMinute |-> match.goldPerMinute,
         idx |-> idx + 1, aggression |-> Aggression(match),
         visionDom |-> VisionDom(match), consistency |-> Consistency(windowGold)]

\* The useMemo callback
ChartData(d) ==
    IF Len(d) = 0 THEN <<>>
    ELSE LET reversed == Reverse(d) IN
         [i \in 1..Len(reversed) |-> ChartPoint(reversed, i - 1)]

(***************************************************************************)
(* SpecTrend: the component is given a match list and renders              *)
(***************************************************************************)
\* The match list with the given goldPerMinute values; matchId numbers the
\* matches newest first.
MatchList(g) ==
    [k \in 1..Len(g) |->
        [matchId |-> k, goldPerMinute |-> g[k],
         aggressionScore |-> NotANumber, damagePerMinute |-> NotANumber,
         visionDominance |-> NotANumber, visionScore |-> NotANumber,
         kda |-> NotANumber, win |-> FALSE]]

\* The `data` prop: an array (the variable data is the array object the
\* prop refers to), null or undefined
ArrayProp(d) == [kind |-> "array", list |-> d]
NullProp == [kind |-> "null", list |-> <<>>]
UndefinedProp == [kind |-> "undefined", list |-> <<>>]

\* !data
Falsy(p) == p.kind # "array"

\* The array object behind the prop once the useMemo callback has run:
\* [...data] is a fresh array, so reverse() leaves `data` as it was.
DataAfterChartData_InPlace(d) == Reverse(d)

DataAfterChartData(d) == d

\* if (!data || data.length === 0) return []; ...
ChartDataOf(p, d) == IF Falsy(p) THEN <<>> ELSE ChartData(d)

TypeErrorMsg(p) ==
    IF p.kind = "null" THEN "Cannot read properties of null (reading 'length')"
    ELSE "Cannot read properties of undefined (reading 'length')"
NoMatch == [matchId |-> 0]

\* Quotients are kept exact, as numerator and denominator.
Quotient(a, b) == [num |-> a, den |-> b]
Zero == Quotient(0, 1)

\* data && data.length > 0 ? data[0] : null
Latest(p, d) == IF ~Falsy(p) /\ Len(d) > 0 THEN d[1] ELSE NoMatch

\* data.length ? data.reduce((acc, curr) => acc + (curr.kda || 0), 0) / data.length : 0
AvgKda(d) ==
    IF Len(d) # 0
    THEN Quotient(SumOf([k \in 1..Len(d) |-> OrElse(d[k].kda, 0)]), Len(d))
    ELSE Zero

\* data.length ? data.filter(g => g.win).length / data.length * 100 : 0
WinRate100(d) ==
    IF Len(d) # 0
    THEN Quotient(Cardinality({k \in 1..Len(d) : d[k].win}) * 100, Len(d))
    ELSE Zero

\* The body of the component after the useMemo: `data.length` at lines 49,
\* 50 and 56 is evaluated whatever `data` is, and throws a TypeError when
\* it is null or undefined.
Summary(p, d, series, renders) ==
    IF Falsy(p)
    THEN [screen |-> "threw", text |-> TypeErrorMsg(p), renders |-> renders]
    ELSE [screen |-> "trends", latest |-> Latest(p, d), avgKda |-> AvgKda(d),
          winRate |-> WinRate100(d), matches |-> Len(d),
          placeholder |-> (Len(series) = 0), renders |-> renders]

NoRequest == NewRequest(<<>>, FALSE, NoParams)

InitTrend ==
    /\ \E n \in 0..MaxMatches : \E g \in [1..n -> GoldValues] : data = MatchList(g)
    /\ props = ArrayProp(data)
    /\ view = NoView
    /\ anim = IdleAnim
    /\ chartData = <<>>
    /\ rendered = FALSE
    /\ req = NoRequest
    /\ reqs = <<>>
    /\ dash = IdleDash
    /\ home = IdleHome
    /\ pipe = IdlePipe

\* The first render: the useMemo callback runs, then the rest of the body.
Render ==
    /\ ~rendered
    /\ chartData' = ChartDataOf(props, data)
    /\ data' = (IF Falsy(props) \/ Len(data) = 0 THEN data ELSE DataAfterChartData(data))
    /\ rendered' = TRUE
    /\ view' = Summary(props, data', chartData', 1)
    /\ UNCHANGED <<req, reqs, dash, home, pipe, props, anim>>

\* A later render with the same `data` (setActiveMetric): the memoised
\* series is kept, the rest of the body runs again.
Rerender ==
    /\ rendered
    /\ view.screen = "trends"
    /\ view.renders < MaxRenders
    /\ view' = Summary(props, data, chartData, view.renders + 1)
    /\ UNCHANGED <<data, chartData, rendered, req, reqs, dash, home, pipe, props, anim>>

NextTrend == Render \/ Rerender

SpecTrend == InitTrend /\ [][NextTrend]_vars

(***************************************************************************)
(* SpecScores: the same component given matches that carry, or lack, the   *)
(* composite scores of the backend and the members the fallbacks read      *)
(***************************************************************************)
ScoreValues ==
    [aggressionScore : {NotANumber, Num(0), Num(62)},
     damagePerMinute : {NotANumber, Num(480)},
     visionDominance : {NotANumber, Num(0), Num(3)},
     visionScore     : {NotANumber, Num(21)}]

ScoredList(sc) ==
    [k \in 1..Len(sc) |->
        [matchId |-> k, goldPerMinute |-> Num(15),
         aggressionScore |-> sc[k].aggressionScore,
         damagePerMinute |-> sc[k].damagePerMinute,
         visionDominance |-> sc[k].visionDominance,
         visionScore |-> sc[k].visionScore,
         kda |-> NotANumber, win |-> FALSE]]

InitScores ==
    /\ \E n \in 0..MaxScored : \E sc \in [1..n -> ScoreValues] : data = ScoredList(sc)
    /\ props = ArrayProp(data)
    /\ view = NoView
    /\ anim = IdleAnim
    /\ chartData = <<>>
    /\ rendered = FALSE
    /\ req = NoRequest
    /\ reqs = <<>>
    /\ dash = IdleDash
    /\ home = IdleHome
    /\ pipe = IdlePipe

SpecScores == InitScores /\ [][NextTrend]_vars

(***************************************************************************)
(* SpecSummary: the same component given matches with a kda and a win      *)
(* member, or given no list at all                                         *)
(***************************************************************************)
GameValues == [kda : {NotANumber, Num(2), Num(5)}, win : BOOLEAN]

GameList(gs) ==
    [k \in 1..Len(gs) |->
        [matchId |-> k, goldPerMinute |-> Num(15),
         aggressionScore |-> NotANumber, damagePerMinute |-> NotANumber,
         visionDominance |-> NotANumber, visionScore |-> NotANumber,
         kda |-> gs[k].kda, win |-> gs[k].win]]

InitSummary ==
    /\ \/ \E n \in 0..MaxGames : \E gs \in [1..n -> GameValues] :
            /\ data = GameList(gs)
            /\ props = ArrayProp(data)
       \/ /\ data = <<>>
          /\ props \in {NullProp, UndefinedProp}
    /\ view = NoView
    /\ anim = IdleAnim
    /\ chartData = <<>>
    /\ rendered = FALSE
    /\ req = NoRequest
    /\ reqs = <<>>
    /\ dash = IdleDash
    /\ home = IdleHome
    /\ pipe = IdlePipe

SpecSummary == InitSummary /\ [][NextTrend]_vars

(***************************************************************************)
(* The event stream of the analysis backend, which is not part of the      *)
(* sources: per the specification of the Progress Reporter and of the      *)
(* outbound event stream it emits progress events at fixed milestones in   *)
(* pipeline order with non-decreasing percent, then one `result` (after    *)
(* the last milestone) or one `error` (at any stage); the connection may   *)
(* also end before the terminal event.                                     *)
(***************************************************************************)
ReporterMilestones == << <<LB, "p10", RB>>, <<LB, "p50", RB>> >>

ReporterStreams ==
    { Join(SubSeq(ReporterMilestones, 1, k) \o t, TRUE) :
        k \in 0..Len(ReporterMilestones), t \in {<<>>, << <<LB, "eX", RB>> >>} }
    \cup { Join(ReporterMilestones \o << <<LB, "rA", RB>> >>, TRUE) }

(***************************************************************************)
(* The loading screen of the Dashboard: the stage list and the stage the   *)
(* progress percent selects.                                               *)
(***************************************************************************)
LOADING_STAGES ==
    << [id |-> 1, label |-> "Finding Account", minPercent |-> 0],
       [id |-> 2, label |-> "Fetching Ranked Info", minPercent |-> 8],
       [id |-> 3, label |-> "Loading Match History", minPercent |-> 10],
       [id |-> 4, label |-> "Training AI Model", minPercent |-> 72],
       [id |-> 5, label |-> "Analyzing Performance", minPercent |-> 78],
       [id |-> 6, label |-> "Analyzing Territorial Control", minPercent |-> 83],
       [id |-> 7, label |-> "Calculating Win Probability", minPercent |-> 88],
       [id |-> 8, label |-> "Fetching Timeline Data", minPercent |-> 95],
       [id |-> 9, label |-> "Finalizing Results", minPercent |-> 98] >>

\* The callback of LOADING_STAGES.findIndex, idx 0-based
IsCurrentStage_NoNextStage(percent, idx) ==
    percent >= LOADING_STAGES[idx + 1].minPercent

IsCurrentStage(percent, idx) ==
    /\ percent >= LOADING_STAGES[idx + 1].minPercent
    /\ \/ idx + 1 = Len(LOADING_STAGES)
       \/ percent < LOADING_STAGES[idx + 2].minPercent

\* Array.prototype.findIndex: the first index that satisfies the callback,
\* -1 when there is none
CurrentStageIndex(percent) ==
    IF \E idx \in 0..(Len(LOADING_STAGES) - 1) : IsCurrentStage(percent, idx)
    THEN CHOOSE idx \in 0..(Len(LOADING_STAGES) - 1) :
            /\ IsCurrentStage(percent, idx)
            /\ \A j \in 0..(idx - 1) : ~IsCurrentStage(percent, j)
    ELSE -1

\* isCompleted = idx < currentStageIndex; isCurrent = idx === currentStageIndex
StageStatus(idx, currentStageIndex) ==
    IF idx < currentStageIndex THEN "completed"
    ELSE IF idx = currentStageIndex THEN "current"
    ELSE "pending"

\* What the Dashboard returns from a render: the loading screen with the
\* status of every stage, the error state, or the result view.
DashRender(d) ==
    IF d.loading
    THEN [screen |-> "loading", message |-> d.progress.message,
          percent |-> d.progress.percent,
          currentStageIndex |-> CurrentStageIndex(d.progress.percent),
          stages |-> [k \in 1..Len(LOADING_STAGES) |->
                        StageStatus(k - 1, CurrentStageIndex(d.progress.percent))]]
    ELSE IF d.error # "" \/ d.data = ""
    THEN [screen |-> "error",
          text |-> IF d.error # "" THEN d.error ELSE "Could not retrieve data"]
    ELSE [screen |-> "result", data |-> d.data]

(***************************************************************************)
(* SpecDash: the Dashboard page and the analyzeStats calls it makes        *)
(***************************************************************************)
RouteParams ==
    { [riotId |-> "Faker#KR1", region |-> "kr"],
      [riotId |-> "Caps#EUW", region |-> "euw"] }

Truthy(str) == str # ""

\* (p) => { setProgress(p); }
DashOnProgress(d, i, newCalls) ==
    IF newCalls = <<>> THEN d
    ELSE [d EXCEPT !.progress = newCalls[Len(newCalls)], !.progressBy = i]

\* The continuation of fetchData once analyzeStats has settled:
\* setData(result) or setError(err.message), then setLoading(false)
DashSettle_NoFinally(d, outcome) ==
    IF outcome.kind = "resolved"
    THEN [d EXCEPT !.data = outcome.value, !.loading = FALSE]
    ELSE IF outcome.kind = "rejected"
    THEN [d EXCEPT !.error = outcome.value]
    ELSE d

DashSettle(d, outcome) ==
    IF outcome.kind = "resolved"
    THEN [d EXCEPT !.data = outcome.value, !.loading = FALSE]
    ELSE IF outcome.kind = "rejected"
    THEN [d EXCEPT !.error = outcome.value, !.loading = FALSE]
    ELSE d

\* The Dashboard after request i went from r to r2
DashAfter(d, i, r, r2) ==
    [DashSettle(DashOnProgress(d, i, SubSeq(r2.calls, Len(r.calls) + 1, Len(r2.calls))),
                r2.outcome)
        EXCEPT !.dataBy = IF r2.outcome.kind = "resolved" THEN i ELSE @]

\* Once analyzeStats has returned or thrown, its locals (reader, buffer)
\* are gone; the promise's outcome and the calls it made remain.
Returned(r) ==
    IF r.pc = "settled"
    THEN [r EXCEPT !.content = <<>>, !.pos = 0, !.buffer = <<>>]
    ELSE r

InitDash ==
    /\ \E p \in RouteParams : dash = NewDash(p)
    /\ view = DashRender(dash)
    /\ props = NoProps
    /\ anim = IdleAnim
    /\ reqs = <<>>
    /\ req = NoRequest
    /\ data = <<>>
    /\ chartData = <<>>
    /\ rendered = FALSE
    /\ home = IdleHome
    /\ pipe = IdlePipe

\* useEffect(() => { ...; if (riotId && region) fetchData(); }, [riotId, region])
RunEffect ==
    /\ dash.deps # dash.params
    /\ dash' = [dash EXCEPT !.deps = dash.params]
    /\ view' = DashRender(dash')
    /\ IF Truthy(dash.params.riotId) /\ Truthy(dash.params.region)
       THEN reqs' = Append(reqs, NewRequest(<<>>, TRUE, dash.params))
       ELSE reqs' = reqs
    /\ UNCHANGED <<req, data, chartData, rendered, home, pipe, props, anim>>

\* The user follows a link to another summoner page; the page re-renders
\* with the new route parameters and its effects are flushed before the
\* next navigation.
Navigate ==
    /\ dash.deps = dash.params
    /\ Len(dash.hist) <= MaxNav
    /\ \E p \in RouteParams \ {dash.params} :
        dash' = [dash EXCEPT !.params = p, !.hist = Append(dash.hist, p)]
    /\ view' = DashRender(dash')
    /\ UNCHANGED <<req, reqs, data, chartData, rendered, home, pipe, props, anim>>

\* The response to request i arrives; a response with a body carries one
\* of the backend's streams.
DashFetch ==
    \E i \in 1..Len(reqs), resp \in Responses :
        /\ reqs[i].pc = "fetch"
        /\ \E body \in (IF resp.ok /\ resp.body THEN ReporterStreams ELSE {<<>>}) :
           \E r2 \in {AnalyzeFetch([reqs[i] EXCEPT !.content = body], resp)} :
            /\ reqs' = [reqs EXCEPT ![i] = Returned(r2)]
            /\ dash' = DashAfter(dash, i, reqs[i], r2)
            /\ view' = DashRender(dash')
        /\ UNCHANGED <<req, data, chartData, rendered, home, pipe, props, anim>>

\* The backend flushes one event per chunk: the next chunk of request i
\* runs up to and including the next newline.
NextEventLen(r) ==
    IndexOfNewline(SubSeq(r.content, r.pos + 1, Len(r.content)))

DashRead ==
    \E i \in 1..Len(reqs) :
        /\ reqs[i].pc = "read" /\ ~reqs[i].stalled
        /\ reqs[i].pos < Len(reqs[i].content)
        /\ \E n \in {NextEventLen(reqs[i])} :
           \E r2 \in {AnalyzeRead(reqs[i], n)} :
            /\ reqs' = [reqs EXCEPT ![i] = Returned(r2)]
            /\ dash' = DashAfter(dash, i, reqs[i], r2)
            /\ view' = DashRender(dash')
        /\ UNCHANGED <<req, data, chartData, rendered, home, pipe, props, anim>>

DashDone ==
    \E i \in 1..Len(reqs) :
        /\ reqs[i].pc = "read" /\ ~reqs[i].stalled
        /\ reqs[i].pos = Len(reqs[i].content)
        /\ \E r2 \in {AnalyzeDone(reqs[i])} :
            /\ reqs' = [reqs EXCEPT ![i] = Returned(r2)]
            /\ dash' = DashAfter(dash, i, reqs[i], r2)
            /\ view' = DashRender(dash')
        /\ UNCHANGED <<req, data, chartData, rendered, home, pipe, props, anim>>

\* The upstream of request i stops sending: no further chunk and no
\* end-of-stream, so its pending reader.read() never resolves.
DashStall ==
    \E i \in 1..Len(reqs) :
        /\ reqs[i].pc = "read" /\ ~reqs[i].stalled
        /\ reqs' = [reqs EXCEPT ![i].stalled = TRUE]
        /\ UNCHANGED <<dash, req, data, chartData, rendered, home, pipe, view, props, anim>>

NextDash == RunEffect \/ Navigate \/ DashFetch \/ DashRead \/ DashDone \/ DashStall

SpecDash == InitDash /\ [][NextDash]_vars

\* The event loop runs a continuation once the promise it awaits has
\* settled; the user and the upstream are under no obligation.
FairSpecDash ==
    SpecDash /\ WF_vars(RunEffect) /\ WF_vars(DashFetch) /\ WF_vars(DashRead) /\ WF_vars(DashDone)

(***************************************************************************)
(* SpecLoading: the Dashboard while its request is in flight, under every  *)
(* progress percent the stream may carry                                   *)
(***************************************************************************)
Percents == 0..100

InitLoading ==
    /\ \E p \in RouteParams :
        /\ dash = [NewDash(p) EXCEPT !.deps = p]
        /\ reqs = <<[NewRequest(<<>>, TRUE, p) EXCEPT !.pc = "read"]>>
    /\ view = DashRender(dash)
    /\ props = NoProps
    /\ anim = IdleAnim
    /\ req = NoRequest
    /\ data = <<>>
    /\ chartData = <<>>
    /\ rendered = FALSE
    /\ home = IdleHome
    /\ pipe = IdlePipe

\* A progress event arrives: onProgress -> setProgress -> render
ProgressEvent ==
    /\ dash.loading
    /\ \E percent \in Percents :
        dash' = DashOnProgress(dash, 1, <<[message |-> "Working...", percent |-> percent]>>)
    /\ view' = DashRender(dash')
    /\ UNCHANGED <<req, reqs, data, chartData, rendered, home, pipe, props, anim>>

NextLoading == ProgressEvent

SpecLoading == InitLoading /\ [][NextLoading]_vars

(***************************************************************************)
(* The Home page (app/page.tsx), its SearchBar and, as page "legacy", the  *)
(* earlier Home page with the search form inline.  Strings are sequences   *)
(* of characters.                                                          *)
(***************************************************************************)
HASH == "#"
BLANK == " "
AlertMsg == "Please use format Name#Tag"

\* The characters the user types: a letter, "#" and a blank.
TypedChars == {"x", HASH, BLANK}

Regions == {"euw", "kr"}

\* The Quick Links: Agurin#EUW, Caps#EUW, Faker#KR1
QuickLinks ==
    { [riotId |-> <<"A", HASH, "E">>, region |-> "euw"],
      [riotId |-> <<"C", HASH, "E">>, region |-> "euw"],
      [riotId |-> <<"F", HASH, "K">>, region |-> "kr"] }

\* String.prototype.includes for a one-character search string
Includes(str, c) == \E i \in 1..Len(str) : str[i] = c

\* Mutant of EncodeURIComponent: the reserved character "#" is left as it is
\* (what encodeURI does).
RECURSIVE EncodeURIComponent_KeepsHash(_)
EncodeURIComponent_KeepsHash(str) ==
    IF str = <<>> THEN <<>>
    ELSE (CASE Head(str) = BLANK -> <<"%", "2", "0">>
            [] Head(str) = "/"   -> <<"%", "2", "F">>
            [] OTHER             -> <<Head(str)>>)
         \o EncodeURIComponent_KeepsHash(Tail(str))

\* encodeURIComponent: letters and digits are kept, every other character
\* of the model's alphabet is replaced by its percent escape.
RECURSIVE EncodeURIComponent(_)
EncodeURIComponent(str) ==
    IF str = <<>> THEN <<>>
    ELSE (CASE Head(str) = HASH  -> <<"%", "2", "3">>
            [] Head(str) = BLANK -> <<"%", "2", "0">>
            [] Head(str) = "/"   -> <<"%", "2", "F">>
            [] OTHER             -> <<Head(str)>>)
         \o EncodeURIComponent(Tail(str))

\* `/summoner/${region}/${encodedId}`
SummonerRoute(region, encodedId) == <<"/summoner/", region, "/">> \o encodedId

\* Home.handleSearch of app/page.tsx; the value is what the call did: the
\* alert it raised ("" for none) and the routes it pushed.
HandleSearch(searchId, searchRegion) ==
    IF ~Includes(searchId, HASH)
    THEN [alert |-> AlertMsg, routes |-> <<>>]
    ELSE [alert |-> "",
          routes |-> <<SummonerRoute(searchRegion, EncodeURIComponent(searchId))>>]

\* Home.handleSubmit of the earlier page: the same checks on the page's own
\* riotId and region; setLoading(true) and setLoading(false) run in the same
\* synchronous handler, so loading is false again when it returns.
HandleSubmit(riotId, region) ==
    IF ~Includes(riotId, HASH)
    THEN [alert |-> AlertMsg, routes |-> <<>>]
    ELSE [alert |-> "",
          routes |-> <<SummonerRoute(region, EncodeURIComponent(riotId))>>]

NoCall == [riotId |-> <<>>, region |-> "", alert |-> "", routes |-> <<>>]

NoLink == [riotId |-> <<>>, region |-> ""]

\* useState("") / useState("euw") of Home; the SearchBar's useState cells
\* start from its props, and its mount effect has run.  bar.onSearch is the
\* state of the promise handleSubmit awaits; clicked is the Quick Link
\* clicked by the last user action, NoLink when that was not such a click.
NewHome(page) ==
    [page |-> page, riotId |-> <<>>, region |-> "euw",
     deps |-> [riotId |-> <<>>, region |-> "euw"],
     bar |-> [riotId |-> <<>>, region |-> "euw", loading |-> FALSE,
              onSearch |-> "none"],
     calls |-> 0, last |-> NoCall, clicked |-> NoLink]

\* The effect of SearchBar on [initialRiotId, initialRegion]
BarSync(bar, initialRiotId, initialRegion) ==
    [bar EXCEPT !.riotId = IF initialRiotId # <<>> THEN initialRiotId ELSE @,
                !.region = IF initialRegion # "" THEN initialRegion ELSE @]

\* The record of a handler call in the page's history
AfterCall(h, riotId, region, eff) ==
    [h EXCEPT !.calls = @ + 1,
              !.last = [riotId |-> riotId, region |-> region,
                        alert |-> eff.alert, routes |-> eff.routes]]

InitHome ==
    /\ view = NoView
    /\ props = NoProps
    /\ anim = IdleAnim
    /\ \E page \in {"home", "legacy"} : home = NewHome(page)
    /\ pipe = IdlePipe
    /\ req = NoRequest
    /\ reqs = <<>>
    /\ dash = IdleDash
    /\ data = <<>>
    /\ chartData = <<>>
    /\ rendered = FALSE

\* A click on a Quick Link: setRiotId(...); setRegion(...).  On the page with
\* a SearchBar the re-render changes the bar's props, and its effect runs
\* when they differ from those of its last run.
QuickLink ==
    /\ home.page \in {"home", "legacy"}
    /\ \E link \in QuickLinks :
        LET h == [home EXCEPT !.riotId = link.riotId, !.region = link.region,
                              !.clicked = link] IN
        home' = IF home.page = "home" /\ home.deps # link
                THEN [h EXCEPT !.deps = link,
                               !.bar = BarSync(home.bar, link.riotId, link.region)]
                ELSE h
    /\ UNCHANGED <<req, reqs, dash, data, chartData, rendered, pipe, view, props, anim>>

\* The values the text input can take by one keystroke: a character
\* appended, or the last character deleted.
Keystrokes(str) ==
    {Append(str, c) : c \in (IF Len(str) < MaxIdLen THEN TypedChars ELSE {})}
    \cup (IF str # <<>> THEN {SubSeq(str, 1, Len(str) - 1)} ELSE {})

\* onChange of the text input: setRiotId(e.target.value)
TypeRiotId ==
    /\ home.page \in {"home", "legacy", "bar"}
    /\ \E str \in Keystrokes(IF home.page = "legacy" THEN home.riotId ELSE home.bar.riotId) :
        home' = IF home.page = "legacy"
                THEN [home EXCEPT !.riotId = str, !.clicked = NoLink]
                ELSE [home EXCEPT !.bar.riotId = str, !.clicked = NoLink]
    /\ UNCHANGED <<req, reqs, dash, data, chartData, rendered, pipe, view, props, anim>>

\* A choice in the region menu
SelectRegion ==
    /\ home.page \in {"home", "legacy", "bar"}
    /\ \E r \in Regions :
        home' = IF home.page = "legacy"
                THEN [home EXCEPT !.region = r, !.clicked = NoLink]
                ELSE [home EXCEPT !.bar.region = r, !.clicked = NoLink]
    /\ UNCHANGED <<req, reqs, dash, data, chartData, rendered, pipe, view, props, anim>>

\* What the onSearch prop does inside the call: Home.handleSearch on the
\* Home page; for a SearchBar on its own, a callback the model knows
\* nothing about.
OnSearch(page, riotId, region) ==
    IF page = "home" THEN HandleSearch(riotId, region)
    ELSE [alert |-> "", routes |-> <<>>]

\* The ways the awaited onSearch can settle: handleSearch returns; any
\* other callback returns or throws.
Outcomes(page) == IF page = "home" THEN {"resolved"} ELSE {"resolved", "threw"}

\* SearchBar.handleSubmit up to its await: the submit button is disabled
\* while loading; an empty or blank riotId returns before any call.
BarSubmit ==
    /\ home.page \in {"home", "bar"} /\ ~home.bar.loading
    /\ home.calls < MaxSubmits
    /\ IF Trim(home.bar.riotId) = <<>>
       THEN home' = [home EXCEPT !.clicked = NoLink]
       ELSE home' = [AfterCall(home, home.bar.riotId, home.bar.region,
                               OnSearch(home.page, home.bar.riotId, home.bar.region))
                        EXCEPT !.bar.loading = TRUE, !.bar.onSearch = "pending",
                               !.clicked = NoLink]
    /\ UNCHANGED <<req, reqs, dash, data, chartData, rendered, pipe, view, props, anim>>

\* try { await onSearch(riotId, region); } finally { setLoading(false); }
AfterOnSearch_NoFinally(bar, outcome) ==
    [bar EXCEPT !.loading = (outcome # "resolved"), !.onSearch = outcome]

AfterOnSearch(bar, outcome) ==
    [bar EXCEPT !.loading = FALSE, !.onSearch = outcome]

\* SearchBar.handleSubmit after its await
BarSettle ==
    /\ home.page \in {"home", "bar"} /\ home.bar.onSearch = "pending"
    /\ \E outcome \in Outcomes(home.page) :
        home' = [home EXCEPT !.bar = AfterOnSearch(home.bar, outcome)]
    /\ UNCHANGED <<req, reqs, dash, data, chartData, rendered, pipe, view, props, anim>>

\* The submit of the earlier page's form
LegacySubmit ==
    /\ home.page = "legacy"
    /\ home.calls < MaxSubmits
    /\ home' = [AfterCall(home, home.riotId, home.region,
                          HandleSubmit(home.riotId, home.region))
                    EXCEPT !.clicked = NoLink]
    /\ UNCHANGED <<req, reqs, dash, data, chartData, rendered, pipe, view, props, anim>>

NextHome ==
    QuickLink \/ TypeRiotId \/ SelectRegion \/ BarSubmit \/ BarSettle \/ LegacySubmit

SpecHome == InitHome /\ [][NextHome]_vars

(***************************************************************************)
(* SpecRow: one StatComparisonRow (DetailedMatchAnalysis).  Stat values    *)
(* are kept in hundredths, so that the equality threshold 0.05 is 5.       *)
(***************************************************************************)
EvenThreshold == 5      \* Math.abs(diff) < 0.05

GREEN == "text-green-400"
RED == "text-red-400"

\* The body of StatComparisonRow: the classes of the two values
StatComparisonRow(userValue, enemyValue, inverse) ==
    LET diff == IF inverse THEN -(userValue - enemyValue) ELSE userValue - enemyValue
        isEven == (IF diff < 0 THEN -diff ELSE diff) < EvenThreshold
        isWinning == diff > 0
    IN  [screen |-> "row", diff |-> diff,
         userClass |-> IF isWinning THEN GREEN
                       ELSE IF isEven THEN "text-slate-400" ELSE "text-slate-500",
         enemyClass |-> IF ~isWinning /\ ~isEven THEN RED ELSE "text-[#5842F4]/70"]

InitRow ==
    /\ \E userValue \in 0..MaxStat, enemyValue \in 0..MaxStat, inverse \in BOOLEAN :
        props = [kind |-> "row", userValue |-> userValue, enemyValue |-> enemyValue,
                 inverse |-> inverse]
    /\ view = NoView
    /\ anim = IdleAnim
    /\ home = IdleHome
    /\ pipe = IdlePipe
    /\ req = NoRequest
    /\ reqs = <<>>
    /\ dash = IdleDash
    /\ data = <<>>
    /\ chartData = <<>>
    /\ rendered = FALSE

RenderRow ==
    /\ view.screen = "none"
    /\ view' = StatComparisonRow(props.userValue, props.enemyValue, props.inverse)
    /\ UNCHANGED <<req, reqs, dash, data, chartData, rendered, home, pipe, props, anim>>

NextRow == RenderRow

SpecRow == InitRow /\ [][NextRow]_vars

(***************************************************************************)
(* SpecMap: the effect of ElectricMap, the two images it loads and the     *)
(* browser's list of animation frame callbacks.  requestAnimationFrame     *)
(* returns a fresh non-zero handle; cancelAnimationFrame removes the       *)
(* callback with the given handle and does nothing for any other value.    *)
(***************************************************************************)
NoCallback == [id |-> 0, fn |-> "none"]

\* The component after its first render, before its effect has run:
\* animationRef = useRef(0); the images may already be in the cache.
NewAnim(hasCtx, base, glow) ==
    [phase |-> "rendered", hasCtx |-> hasCtx, base |-> base, glow |-> glow,
     animationRef |-> 0, pending |-> NoCallback, nextId |-> 1, frames |-> 0,
     observing |-> FALSE, cleanup |-> FALSE]

\* baseImg.complete && baseImg.naturalWidth && glowImg.complete && glowImg.naturalWidth
Ready(a) == a.base /\ a.glow

\* requestAnimationFrame(fn)
RequestAnimationFrame(a, fn) ==
    [a EXCEPT !.pending = [id |-> a.nextId, fn |-> fn], !.nextId = @ + 1]

\* cancelAnimationFrame(handle)
CancelAnimationFrame(a, handle) ==
    IF a.pending.id = handle THEN [a EXCEPT !.pending = NoCallback] ELSE a

\* function start(): the handle of the polling request is not kept
Start(a) ==
    IF ~Ready(a)
    THEN RequestAnimationFrame(a, "start")
    ELSE [RequestAnimationFrame(a, "frame") EXCEPT !.animationRef = a.nextId]

\* function frame(now): draws, then requests the next frame
Frame(a) ==
    [RequestAnimationFrame(a, "frame") EXCEPT !.animationRef = a.nextId]

InitMap ==
    /\ \E hasCtx \in BOOLEAN, base \in BOOLEAN, glow \in BOOLEAN :
        anim = NewAnim(hasCtx, base, glow)
    /\ view = NoView
    /\ props = NoProps
    /\ home = IdleHome
    /\ pipe = IdlePipe
    /\ req = NoRequest
    /\ reqs = <<>>
    /\ dash = IdleDash
    /\ data = <<>>
    /\ chartData = <<>>
    /\ rendered = FALSE

\* The effect: without a 2d context it returns early, and registers no
\* cleanup; otherwise it observes the container, calls start() and
\* returns the cleanup function.
MapEffect ==
    /\ anim.phase = "rendered"
    /\ anim' = IF ~anim.hasCtx
               THEN [anim EXCEPT !.phase = "mounted"]
               ELSE [Start(anim) EXCEPT !.phase = "mounted", !.observing = TRUE,
                                        !.cleanup = TRUE]
    /\ UNCHANGED <<req, reqs, dash, data, chartData, rendered, home, pipe, view, props>>

\* One of the two images finishes loading, whether or not the component
\* is still mounted.
ImageLoaded ==
    /\ anim.phase \in {"mounted", "unmounted"}
    /\ \/ ~anim.base /\ anim' = [anim EXCEPT !.base = TRUE]
       \/ ~anim.glow /\ anim' = [anim EXCEPT !.glow = TRUE]
    /\ UNCHANGED <<req, reqs, dash, data, chartData, rendered, home, pipe, view, props>>

\* The browser runs the pending animation frame callback.
AnimationFrame ==
    /\ anim.pending # NoCallback
    /\ anim.frames < MaxFrames
    /\ \E a \in {[anim EXCEPT !.pending = NoCallback, !.frames = @ + 1]} :
        anim' = IF anim.pending.fn = "start" THEN Start(a) ELSE Frame(a)
    /\ UNCHANGED <<req, reqs, dash, data, chartData, rendered, home, pipe, view, props>>

\* The cleanup: resizeObserver.disconnect(); cancelAnimationFrame(animationRef.current)
MapCleanup(a) ==
    [CancelAnimationFrame(a, a.animationRef) EXCEPT !.observing = FALSE]

\* The component unmounts: React runs the cleanup the effect returned.
Unmount ==
    /\ anim.phase = "mounted"
    /\ anim' = [(IF anim.cleanup THEN MapCleanup(anim) ELSE anim)
                    EXCEPT !.phase = "unmounted"]
    /\ UNCHANGED <<req, reqs, dash, data, chartData, rendered, home, pipe, view, props>>

NextMap == MapEffect \/ ImageLoaded \/ AnimationFrame \/ Unmount

SpecMap == InitMap /\ [][NextMap]_vars

(***************************************************************************)
(* SpecBar: a SearchBar on its own, whose onSearch prop is any callback    *)
(***************************************************************************)
InitBar ==
    /\ home = NewHome("bar")
    /\ view = NoView
    /\ props = NoProps
    /\ anim = IdleAnim
    /\ pipe = IdlePipe
    /\ req = NoRequest
    /\ reqs = <<>>
    /\ dash = IdleDash
    /\ data = <<>>
    /\ chartData = <<>>
    /\ rendered = FALSE

NextBar == TypeRiotId \/ SelectRegion \/ BarSubmit \/ BarSettle

SpecBar == InitBar /\ [][NextBar]_vars

(***************************************************************************)
(* The analysis pipeline of the backend (apps/api), which is not part of   *)
(* the sources: modelled from the specification of the Feature Extractor,  *)
(* the Aggregator, the Model Trainer, the Driver Analyzer and the Progress *)
(* Reporter.  A history is the sequence of the labels (TRUE = win) of its  *)
(* matches, newest first; the most recent match also carries the stat      *)
(* blocks shown as last_match_stats and enemy_stats.                       *)
(***************************************************************************)
MinHistory == 5            \* the fixed minimum history size of the Model Trainer
TopN == 2                  \* the fixed length of the driver list
ImportanceTotal == 30      \* the importances of a map sum to this (stands for 1)
MinImportance == 4         \* the importance threshold of a skill gap

\* The feature schema, and the win-condition proxies the schema excludes;
\* StatKeys lists the keys of a raw stat block in lexical order.
FeatureSchema == {"damagePerMinute", "goldPerMinute", "visionScore"}
WinConditionProxies == {"dragonKills", "turretKills"}
StatKeys == <<"damagePerMinute", "dragonKills", "goldPerMinute", "turretKills", "visionScore">>

KeyIndex(f) == CHOOSE i \in 1..Len(StatKeys) : StatKeys[i] = f

StatBlock(dpm, dragons, gpm, turrets, vision) ==
    [f \in {StatKeys[i] : i \in 1..Len(StatKeys)} |->
        CASE f = "damagePerMinute" -> dpm
          [] f = "dragonKills"     -> dragons
          [] f = "goldPerMinute"   -> gpm
          [] f = "turretKills"     -> turrets
          [] OTHER                 -> vision]

StatBlocks == { StatBlock(480, 1, 400, 3, 21), StatBlock(300, 2, 450, 1, 30) }

\* Mutant of ExtractFeatures: the raw stat block is passed on whole.
ExtractFeatures_KeepsAll(stats) == stats

\* Feature Extractor: the vector holds the features of the schema only.
ExtractFeatures(stats) == [f \in FeatureSchema |-> stats[f]]

\* Rationals are pairs; a probability is num / den.
Ratio(num, den) == [num |-> num, den |-> den]

RECURSIVE Wins(_)
Wins(history) ==
    IF history = <<>> THEN 0
    ELSE (IF Head(history) THEN 1 ELSE 0) + Wins(Tail(history))

\* The documented default of the caller: the simple historical win rate.
WinRate(history) == Ratio(Wins(history), Len(history))

UniformImportances(keys) ==
    [f \in keys |-> ImportanceTotal \div Cardinality(keys)]

\* An ImportanceMap that favours feature g.
SkewedImportances(keys, g) ==
    LET m == Cardinality(keys)
        u == ImportanceTotal \div m
    IN  [f \in keys |-> IF f = g THEN u + (m - 1) * (u \div 2) ELSE u \div 2]

\* What a fitted ensemble may return for the latest vector: the fit itself
\* is not modelled, any of these scores and importance maps can come out.
ModelScores == {Ratio(1, 4), Ratio(3, 4)}
FittedImportances(keys) == {SkewedImportances(keys, g) : g \in keys}

\* Mutant of TrainerOutputs: the check of the minimum history size is
\* missing, a model is fitted on any history with both labels.
TrainerOutputs_NoMinimum(history, keys) ==
    IF \A i \in 1..Len(history) : history[i] = history[1]
    THEN {[flag |-> "DegenerateLabelSet",
           win_probability |-> Ratio(IF history[1] THEN 1 ELSE 0, 1),
           importances |-> UniformImportances(keys)]}
    ELSE {[flag |-> "", win_probability |-> p, importances |-> imp] :
            p \in ModelScores, imp \in FittedImportances(keys)}

\* Mutant of TrainerOutputs: the check for a single label is missing, a
\* model is fitted on every history of sufficient size.
TrainerOutputs_NoDegenerateCheck(history, keys) ==
    IF Len(history) < MinHistory
    THEN {[flag |-> "InsufficientHistory",
           win_probability |-> WinRate(history),
           importances |-> UniformImportances(keys)]}
    ELSE {[flag |-> "", win_probability |-> p, importances |-> imp] :
            p \in ModelScores, imp \in FittedImportances(keys)}

\* Model Trainer with the recovery of its caller: below the minimum the
\* InsufficientHistory condition is answered with the historical win rate,
\* a single label with the trivial probability, both with a uniform
\* ImportanceMap; otherwise the fitted model scores the latest vector.
TrainerOutputs(history, keys) ==
    IF Len(history) < MinHistory
    THEN {[flag |-> "InsufficientHistory",
           win_probability |-> WinRate(history),
           importances |-> UniformImportances(keys)]}
    ELSE IF \A i \in 1..Len(history) : history[i] = history[1]
    THEN {[flag |-> "DegenerateLabelSet",
           win_probability |-> Ratio(IF history[1] THEN 1 ELSE 0, 1),
           importances |-> UniformImportances(keys)]}
    ELSE {[flag |-> "", win_probability |-> p, importances |-> imp] :
            p \in ModelScores, imp \in FittedImportances(keys)}

Abs(x) == IF x < 0 THEN -x ELSE x

\* Signed percentage difference of the subject's value to the comparison value
DiffPct(value, baseline) == ((value - baseline) * 100) \div Max(Abs(baseline), 1)

RankScore(f, latest, opponent, importances) ==
    importances[f] * Abs(DiffPct(latest[f], opponent[f]))

\* f ranks before g: higher score first, equal scores in lexical order
RanksBefore(f, g, latest, opponent, importances) ==
    LET sf == RankScore(f, latest, opponent, importances)
        sg == RankScore(g, latest, opponent, importances)
    IN  sf > sg \/ (sf = sg /\ KeyIndex(f) < KeyIndex(g))

RECURSIVE Ranked(_, _, _, _)
Ranked(cands, latest, opponent, importances) ==
    IF cands = {} THEN <<>>
    ELSE LET best == CHOOSE f \in cands :
                        \A g \in cands \ {f} : RanksBefore(f, g, latest, opponent, importances)
         IN  <<[feature |-> best, value |-> latest[best], baseline |-> opponent[best],
                diff_pct |-> DiffPct(latest[best], opponent[best])]>>
             \o Ranked(cands \ {best}, latest, opponent, importances)

FirstN(seq, n) == SubSeq(seq, 1, Min(n, Len(seq)))

\* Driver Analyzer: the features of the ImportanceMap in which the subject
\* is ahead of the opponent, ranked, the first TopN of them
WinDrivers(latest, opponent, importances) ==
    FirstN(Ranked({f \in DOMAIN importances : latest[f] > opponent[f]},
                  latest, opponent, importances), TopN)

\* Driver Analyzer: the features in which the subject is behind and whose
\* importance exceeds the threshold, ranked
SkillFocus(latest, opponent, importances) ==
    Ranked({f \in DOMAIN importances :
                latest[f] < opponent[f] /\ importances[f] > MinImportance},
           latest, opponent, importances)

\* Progress Reporter: the milestones in pipeline order, with the percent
\* the loading screen of the client expects for each stage.
Milestones ==
    << [stage |-> "ingest",    percent |-> 10],
       [stage |-> "extract",   percent |-> 50],
       [stage |-> "train",     percent |-> 72],
       [stage |-> "aggregate", percent |-> 78],
       [stage |-> "derive",    percent |-> 88],
       [stage |-> "done",      percent |-> 100] >>

\* The events emitted once the stages of `started` have been entered: the
\* longest prefix of the milestones whose stages have all been entered, so
\* that events leave in pipeline order whatever the order of the work.
RECURSIVE EmittedUpTo(_, _)
EmittedUpTo(started, k) ==
    IF k > Len(Milestones) \/ Milestones[k].stage \notin started THEN <<>>
    ELSE <<Milestones[k]>> \o EmittedUpTo(started, k + 1)

Emitted(log) == EmittedUpTo({log[i] : i \in 1..Len(log)}, 1)

NoOutput == [kind |-> "none"]

\* log: the stage transitions (a stage entered: "train", or completed:
\* "trained") in the order they happened.
NewPipe(history, last, enemy) ==
    [stage |-> "new", history |-> history,
     last_match_stats |-> last, enemy_stats |-> enemy,
     latest |-> <<>>, opponent |-> <<>>,
     aggregator |-> "idle", trainer |-> "idle", analyzer |-> "idle",
     model |-> NoOutput, win_drivers |-> <<>>, skill_focus |-> <<>>,
     log |-> <<>>, events |-> <<>>, out |-> NoOutput]

\* The pipeline after the stage transition t
Logged(q, t) ==
    [q EXCEPT !.log = Append(q.log, t), !.events = Emitted(Append(q.log, t))]

InitPipe ==
    /\ view = NoView
    /\ props = NoProps
    /\ anim = IdleAnim
    /\ \E n \in 0..MaxHistory : \E history \in [1..n -> BOOLEAN] :
       \E last \in StatBlocks, enemy \in StatBlocks :
            pipe = NewPipe(history, last, enemy)
    /\ home = IdleHome
    /\ req = NoRequest
    /\ reqs = <<>>
    /\ dash = IdleDash
    /\ data = <<>>
    /\ chartData = <<>>
    /\ rendered = FALSE

\* Ingestion: an empty history ends the run with an `error` event.
Ingest ==
    /\ pipe.stage = "new"
    /\ pipe' = IF pipe.history = <<>>
               THEN [Logged(pipe, "ingest") EXCEPT
                        !.stage = "finished",
                        !.out = [kind |-> "error", message |-> "No ranked matches found"]]
               ELSE [Logged(pipe, "ingest") EXCEPT !.stage = "ingested"]
    /\ UNCHANGED <<req, reqs, dash, data, chartData, rendered, home, view, props, anim>>

Extract ==
    /\ pipe.stage = "ingested"
    /\ pipe' = [Logged(pipe, "extract") EXCEPT
                    !.stage = "extracted",
                    !.latest = ExtractFeatures(pipe.last_match_stats),
                    !.opponent = ExtractFeatures(pipe.enemy_stats)]
    /\ UNCHANGED <<req, reqs, dash, data, chartData, rendered, home, view, props, anim>>

AggregateStart ==
    /\ pipe.stage = "extracted" /\ pipe.aggregator = "idle"
    /\ pipe' = [Logged(pipe, "aggregate") EXCEPT !.aggregator = "running"]
    /\ UNCHANGED <<req, reqs, dash, data, chartData, rendered, home, view, props, anim>>

AggregateDone ==
    /\ pipe.aggregator = "running"
    /\ pipe' = [Logged(pipe, "aggregated") EXCEPT !.aggregator = "done"]
    /\ UNCHANGED <<req, reqs, dash, data, chartData, rendered, home, view, props, anim>>

TrainStart ==
    /\ pipe.stage = "extracted" /\ pipe.trainer = "idle"
    /\ pipe' = [Logged(pipe, "train") EXCEPT !.trainer = "running"]
    /\ UNCHANGED <<req, reqs, dash, data, chartData, rendered, home, view, props, anim>>

TrainDone ==
    /\ pipe.trainer = "running"
    /\ \E m \in TrainerOutputs(pipe.history, DOMAIN pipe.latest) :
        pipe' = [Logged(pipe, "trained") EXCEPT !.trainer = "done", !.model = m]
    /\ UNCHANGED <<req, reqs, dash, data, chartData, rendered, home, view, props, anim>>

\* Mutant of AnalyzerMayStart: the Driver Analyzer waits for the Model
\* Trainer only.
AnalyzerMayStart_TrainerOnly(q) == q.trainer = "done"

\* Both the Aggregator and the Model Trainer must have completed.
AnalyzerMayStart(q) == q.aggregator = "done" /\ q.trainer = "done"

DeriveStart ==
    /\ pipe.stage = "extracted" /\ pipe.analyzer = "idle"
    /\ AnalyzerMayStart(pipe)
    /\ pipe' = [Logged(pipe, "derive") EXCEPT !.analyzer = "running"]
    /\ UNCHANGED <<req, reqs, dash, data, chartData, rendered, home, view, props, anim>>

DeriveDone ==
    /\ pipe.analyzer = "running"
    /\ pipe' = [Logged(pipe, "derived") EXCEPT
                    !.analyzer = "done",
                    !.win_drivers = WinDrivers(pipe.latest, pipe.opponent, pipe.model.importances),
                    !.skill_focus = SkillFocus(pipe.latest, pipe.opponent, pipe.model.importances)]
    /\ UNCHANGED <<req, reqs, dash, data, chartData, rendered, home, view, props, anim>>

\* The final result object and the `result` event
Finish ==
    /\ pipe.stage = "extracted" /\ pipe.analyzer = "done"
    /\ pipe' = [Logged(pipe, "done") EXCEPT
                    !.stage = "finished",
                    !.out = [kind |-> "result",
                             flag |-> pipe.model.flag,
                             win_probability |-> pipe.model.win_probability,
                             importances |-> pipe.model.importances,
                             win_drivers |-> pipe.win_drivers,
                             skill_focus |-> pipe.skill_focus,
                             last_match_stats |-> pipe.last_match_stats,
                             enemy_stats |-> pipe.enemy_stats]]
    /\ UNCHANGED <<req, reqs, dash, data, chartData, rendered, home, view, props, anim>>

NextPipe ==
    \/ Ingest \/ Extract
    \/ AggregateStart \/ AggregateDone \/ TrainStart \/ TrainDone
    \/ DeriveStart \/ DeriveDone \/ Finish

SpecPipe == InitPipe /\ [][NextPipe]_vars

(***************************************************************************)
(* The events of a stream, read off its characters independently of the    *)
(* consumer: the pieces between newlines, the unterminated tail included.  *)
(***************************************************************************)
RECURSIVE SplitFrom(_, _, _)
SplitFrom(s, i, line) ==
    IF i > Len(s) THEN <<line>>
    ELSE IF s[i] = NL THEN <<line>> \o SplitFrom(s, i + 1, <<>>)
    ELSE SplitFrom(s, i + 1, Append(line, s[i]))

SplitLines(s) == SplitFrom(s, 1, <<>>)

StripSpaces(line) == SelectSeq(line, LAMBDA c : c # SP)

\* The event written on a line; type "" when the line holds no event.
LineEvent(line) ==
    LET t == StripSpaces(line) IN
    IF Len(t) = 3 /\ t[1] = LB /\ t[3] = RB THEN EventOf(t[2]) ELSE EventOf("")

StreamEvents(content) ==
    LET ls == SplitLines(content) IN [i \in 1..Len(ls) |-> LineEvent(ls[i])]

IsTerminal(e) == e.type \in {"result", "error"}

\* Index of the first `result` or `error` event, 0 when there is none.
FirstTerminal(evs) ==
    IF \E i \in 1..Len(evs) : IsTerminal(evs[i])
    THEN CHOOSE i \in 1..Len(evs) :
            IsTerminal(evs[i]) /\ \A j \in 1..(i - 1) : ~IsTerminal(evs[j])
    ELSE 0

\* The progress events before index t, in stream order, as onProgress arguments.
RECURSIVE ProgressUpTo(_, _)
ProgressUpTo(evs, t) ==
    IF t = 0 THEN <<>>
    ELSE ProgressUpTo(evs, t - 1) \o
         (IF evs[t].type = "progress"
          THEN <<[message |-> evs[t].message, percent |-> evs[t].percent]>>
          ELSE <<>>)

ProgressBefore(evs, t) == ProgressUpTo(evs, t - 1)

IsPrefix(a, b) == Len(a) <= Len(b) /\ SubSeq(b, 1, Len(a)) = a

Settled(r) == r.pc = "settled"

(***************************************************************************)
(* C1: when the first terminal event of the stream is an `error` event,    *)
(* analyzeStats rejects with exactly that event's message, whether or not  *)
(* the error line is newline-terminated.                                   *)
(***************************************************************************)
C1_ErrorEventRejectsWithMessage ==
    LET evs == StreamEvents(req.content)
        t   == FirstTerminal(evs)
    IN  (Settled(req) /\ req.streamed /\ t # 0 /\ evs[t].type = "error")
            => req.outcome = Rejected(evs[t].message)

(***************************************************************************)
(* C2: a stream that reached its end without a `result` event makes        *)
(* analyzeStats reject; without an `error` event either, the message is    *)
(* "Stream ended without receiving analysis result".                       *)
(***************************************************************************)
C2_EndWithoutResultRejects ==
    LET evs == StreamEvents(req.content) IN
    (req.eof /\ \A i \in 1..Len(evs) : evs[i].type # "result")
        => /\ req.outcome.kind = "rejected"
           /\ (\A i \in 1..Len(evs) : evs[i].type # "error")
                => req.outcome.value = StreamEndedMsg

C2_Witness ==
    LET evs == StreamEvents(req.content) IN
    /\ req.eof
    /\ \A i \in 1..Len(evs) : ~IsTerminal(evs[i])
    /\ \E i \in 1..Len(evs) : evs[i].type = "progress"
    /\ req.outcome = Rejected(StreamEndedMsg)

(***************************************************************************)
(* C3: the first `result` or `error` event is terminal: no line after it   *)
(* causes an onProgress call, and a later event does not change the        *)
(* outcome (no resolve after an `error`, no reject after a `result`).      *)
(***************************************************************************)
C3_FirstTerminalIsFinal ==
    LET evs == StreamEvents(req.content)
        t   == FirstTerminal(evs)
    IN  (req.streamed /\ t # 0)
            => /\ Len(req.calls) <= Len(ProgressBefore(evs, t))
               /\ (Settled(req) /\ evs[t].type = "error")
                    => req.outcome.kind # "resolved"
               /\ (Settled(req) /\ evs[t].type = "result")
                    => req.outcome.kind # "rejected"

(***************************************************************************)
(* C4: with onProgress supplied, the progress events that precede the      *)
(* terminal event are delivered exactly once each, in stream order, with   *)
(* their message and percent, and all of them have been delivered by the   *)
(* time analyzeStats settles.                                              *)
(***************************************************************************)
C4_ProgressDelivered ==
    LET evs == StreamEvents(req.content)
        t   == FirstTerminal(evs)
        exp == ProgressBefore(evs, t)
    IN  (req.streamed /\ req.hasOnProgress /\ t # 0)
            => /\ IsPrefix(req.calls, exp) \/ IsPrefix(exp, req.calls)
               /\ Settled(req) => IsPrefix(exp, req.calls)

C4_Witness ==
    LET evs == StreamEvents(req.content)
        t   == FirstTerminal(evs)
    IN  /\ Settled(req) /\ req.streamed /\ req.hasOnProgress
        /\ t = 3
        /\ req.calls = ProgressBefore(evs, t)
        /\ Len(req.calls) = 2
        /\ req.calls[1] # req.calls[2]

(***************************************************************************)
(* The window of trend point i (1-based, oldest first) read off the input  *)
(* list, which is newest first: the match the point is derived from and at *)
(* most four older ones.                                                   *)
(***************************************************************************)
InputOf(d, i) == d[Len(d) + 1 - i]

TrailingGold(d, i) ==
    LET lo == Len(d) + 1 - i
        hi == Min(Len(d), lo + 4)
    IN  [k \in 1..(hi - lo + 1) |->
            IF d[lo + k - 1].goldPerMinute.num THEN d[lo + k - 1].goldPerMinute.v ELSE 0]

RECURSIVE SumSquares(_)
SumSquares(w) == IF w = <<>> THEN 0 ELSE Head(w) * Head(w) + SumSquares(Tail(w))

\* c is the integer part of max(0, 100 - 1000 * stddev / mean) of w, with the
\* population standard deviation: (stddev / mean)^2 = (m*sum(x^2) - S^2) / S^2
IsScoreOf(c, w) ==
    LET m == Len(w)
        S == SumOf(w)
        Q == m * SumSquares(w) - S * S
    IN  IF S <= 0 THEN c = 100
        ELSE /\ c \in 0..100
             /\ c = 0 \/ 1000000 * Q <= (100 - c) * (100 - c) * S * S
             /\ c = 100 \/ 1000000 * Q > (99 - c) * (99 - c) * S * S

(***************************************************************************)
(* C8: the trend series of n matches given newest first has n points in    *)
(* oldest-to-newest order: point i (0-based) is derived from input element *)
(* n-1-i and has idx = i+1; an empty input gives an empty series.          *)
(***************************************************************************)
C8_SeriesIsReversedInput ==
    rendered =>
        /\ Len(chartData) = Len(data)
        /\ \A i \in 1..Len(chartData) :
            /\ chartData[i].matchId = InputOf(data, i).matchId
            /\ chartData[i].goldPerMinute = InputOf(data, i).goldPerMinute
            /\ chartData[i].idx = i

C8_Witness ==
    /\ rendered
    /\ Len(data) = 3
    /\ Len(chartData) = 3
    /\ chartData[1].matchId = 3 /\ chartData[3].matchId = 1
    /\ data[1].goldPerMinute # data[3].goldPerMinute

NonDecreasing(calls) ==
    \A j \in 1..(Len(calls) - 1) : calls[j].percent <= calls[j + 1].percent

C6_RequestNeverHangs ==
    <>(Len(reqs) >= 1 /\ Settled(reqs[1]) /\ ~dash.loading)

(***************************************************************************)
(* C7: no automatic retry: every analyzeStats invocation issues exactly    *)
(* one POST, and the invocations made by the Dashboard are exactly one per *)
(* value its route parameters have taken, in that order; in particular a   *)
(* failed request is followed by no further request for the same visit.    *)
(***************************************************************************)
C7_NoAutomaticRetry ==
    LET served == IF dash.deps = dash.params
                  THEN dash.hist
                  ELSE SubSeq(dash.hist, 1, Len(dash.hist) - 1)
    IN  /\ \A i \in 1..Len(reqs) : reqs[i].posts = 1
        /\ [i \in 1..Len(reqs) |-> reqs[i].params] = served

C7_Witness ==
    /\ Len(reqs) = 2
    /\ Len(dash.hist) = 2
    /\ reqs[1].outcome = Rejected(FailedMsg)
    /\ reqs[2].outcome = Rejected(StreamEndedMsg)
    /\ reqs[1].posts = 1 /\ reqs[2].posts = 1
    /\ ~dash.loading

(***************************************************************************)
(* C12: a search navigates if and only if the submitted Riot ID contains   *)
(* "#": with a "#" the call pushes exactly one route,                      *)
(* /summoner/{region}/{Riot ID with "#" as %23 and blank as %20}, and      *)
(* raises no alert; without one it raises the "Please use format Name#Tag" *)
(* alert and pushes nothing.                                               *)
(***************************************************************************)
RECURSIVE Escaped(_)
Escaped(str) ==
    IF str = <<>> THEN <<>>
    ELSE (IF Head(str) = "#" THEN <<"%", "2", "3">>
          ELSE IF Head(str) = " " THEN <<"%", "2", "0">>
          ELSE <<Head(str)>>) \o Escaped(Tail(str))

C12_SearchNavigatesIffHash ==
    home.calls > 0 =>
        LET c == home.last IN
        /\ ("#" \in {c.riotId[i] : i \in 1..Len(c.riotId)}) <=> (c.routes # <<>>)
        /\ c.routes # <<>> =>
            /\ c.routes = << <<"/summoner/", c.region, "/">> \o Escaped(c.riotId) >>
            /\ c.alert = ""
        /\ c.routes = <<>> => c.alert = AlertMsg

C12_Witness ==
    /\ home.page = "home"
    /\ home.calls = 2
    /\ home.last.alert = ""
    /\ home.last.riotId = <<"x", "#">>
    /\ home.last.routes = << <<"/summoner/", "kr", "/", "x", "%", "2", "3">> >>

(***************************************************************************)
(* C13: the trend view renders the composite scores of the backend as      *)
(* given: a match with a numeric aggressionScore (0 included) gives a      *)
(* point whose aggression is that number, a match with a numeric           *)
(* visionDominance (0 included) gives a point whose visionDom is that      *)
(* number; the fallbacks damagePerMinute/10 and visionScore are used only  *)
(* for a match that lacks the backend value.                               *)
(***************************************************************************)
C13_BackendScoresRenderedAsGiven ==
    rendered =>
        \A i \in 1..Len(chartData) :
            LET m == InputOf(data, i) IN
            /\ m.aggressionScore.num => chartData[i].aggression = m.aggressionScore.v
            /\ m.visionDominance.num => chartData[i].visionDom = m.visionDominance.v

(***************************************************************************)
(* The run of analyzeStats that receives the whole content in one chunk,   *)
(* followed by the end of the stream.                                      *)
(***************************************************************************)
WholeRun(content, hasOnProgress) ==
    LET r0 == [NewRequest(content, hasOnProgress, NoParams)
                    EXCEPT !.pc = "read", !.streamed = TRUE]
        r1 == AnalyzeRead(r0, Len(content))
    IN  IF r1.pc = "settled" THEN r1 ELSE AnalyzeDone(r1)

(***************************************************************************)
(* C17: the outcome of analyzeStats and the sequence of its onProgress     *)
(* calls depend only on the concatenated content of the stream: however    *)
(* the content is cut into chunks (in the middle of a line, with empty     *)
(* chunks), the calls made so far are a prefix of, and once settled equal  *)
(* to, those of the run that gets the content in one chunk, and the        *)
(* outcome is the same.                                                    *)
(***************************************************************************)
C17_ChunkingIndependent ==
    req.streamed =>
        LET w == WholeRun(req.content, req.hasOnProgress) IN
        /\ IsPrefix(req.calls, w.calls)
        /\ Settled(req) => req.outcome = w.outcome /\ req.calls = w.calls

C17_Witness ==
    /\ Settled(req) /\ req.streamed /\ req.hasOnProgress
    /\ req.split /\ req.emptyChunk
    /\ Len(req.calls) = 2
    /\ req.outcome = Resolved("analysisA")

(***************************************************************************)
(* C18: an event on the last line of the stream is handled the same with   *)
(* and without a final newline: the run over a content whose last line is  *)
(* unterminated settles with the outcome, and makes the onProgress calls,  *)
(* of the run over the same content followed by a newline.                 *)
(***************************************************************************)
Terminate(content) ==
    IF content = <<>> \/ content[Len(content)] = NL THEN content
    ELSE content \o <<NL>>

C18_LastLineWithoutNewline ==
    (Settled(req) /\ req.streamed) =>
        LET w == WholeRun(Terminate(req.content), req.hasOnProgress) IN
        /\ req.outcome = w.outcome
        /\ req.calls = w.calls

(***************************************************************************)
(* C19: a line that is blank or not valid JSON is skipped: the calls and   *)
(* the outcome are those of the stream without these lines, and while the  *)
(* call reads, the buffer holds exactly the characters received after the  *)
(* last newline (after a return, those after the newline of the line that  *)
(* returned).                                                              *)
(***************************************************************************)
IsSkipped(line) ==
    \/ \A i \in 1..Len(line) : line[i] = SP
    \/ LET t == StripSpaces(line) IN
       ~(\/ t = <<LB, RB>>
         \/ Len(t) = 3 /\ t[1] = LB /\ t[3] = RB /\ t[2] \in PayloadChars)

\* The content without its skipped lines; the last piece is the
\* unterminated tail.
RECURSIVE KeptLines(_, _)
KeptLines(ls, i) ==
    IF i > Len(ls) THEN <<>>
    ELSE (IF IsSkipped(ls[i]) THEN <<>>
          ELSE ls[i] \o (IF i < Len(ls) THEN <<NL>> ELSE <<>>))
         \o KeptLines(ls, i + 1)

WithoutSkipped(content) == KeptLines(SplitLines(content), 1)

C19_SkippedLines ==
    req.streamed =>
        LET w == WholeRun(WithoutSkipped(req.content), req.hasOnProgress) IN
        /\ IsPrefix(req.calls, w.calls)
        /\ Settled(req) => req.outcome = w.outcome /\ req.calls = w.calls
        /\ \E k \in 0..req.pos :
            /\ req.buffer = SubSeq(req.content, k + 1, req.pos)
            /\ k = 0 \/ req.content[k] = NL
            /\ req.pc = "read" => \A i \in 1..Len(req.buffer) : req.buffer[i] # NL

C19_Witness ==
    LET ls == SplitLines(req.content) IN
    /\ Settled(req) /\ req.streamed /\ req.hasOnProgress /\ req.eof
    /\ Len(ls) = 4
    /\ ls[1] = <<LB, GX>> /\ ls[2] = <<LB, "p50", RB>> /\ ls[3] = <<SP>>
    /\ req.calls = <<[message |-> "Processing matches", percent |-> 50]>>
    /\ req.outcome = Rejected(StreamEndedMsg)

(***************************************************************************)
(* C20: a response that is not ok makes analyzeStats reject with the       *)
(* `detail` of the response body, or with "Failed to analyze stats" when   *)
(* there is no detail; in that case, and when the response has no body,    *)
(* the stream is never read and onProgress is never called.                *)
(***************************************************************************)
C20_NotOkRejectsWithDetail ==
    (Settled(req) /\ req.response # NoResponse) =>
        /\ ~req.response.ok =>
            req.outcome = Rejected(IF req.response.detail # ""
                                   THEN req.response.detail
                                   ELSE "Failed to analyze stats")
        /\ (~req.response.ok \/ ~req.response.body) =>
            /\ ~req.streamed /\ req.pos = 0 /\ ~req.eof
            /\ req.calls = <<>>

(***************************************************************************)
(* Positions in the log of the pipeline: 0 when the transition has not     *)
(* happened.                                                               *)
(***************************************************************************)
LogIndex(log, t) ==
    IF \E i \in 1..Len(log) : log[i] = t
    THEN CHOOSE i \in 1..Len(log) : log[i] = t
    ELSE 0

Names(list) == {list[i].feature : i \in 1..Len(list)}

(***************************************************************************)
(* C11: no entry of win_drivers or of skill_focus names a win-condition    *)
(* proxy (a structure or objective kill count), although last_match_stats  *)
(* and enemy_stats carry these counts as display data.                     *)
(***************************************************************************)
C11_NoExcludedFeatureInLists ==
    pipe.stage # "none" =>
        /\ Names(pipe.win_drivers) \cap {"dragonKills", "turretKills"} = {}
        /\ Names(pipe.skill_focus) \cap {"dragonKills", "turretKills"} = {}
        /\ pipe.out.kind = "result" =>
            /\ Names(pipe.out.win_drivers) \cap {"dragonKills", "turretKills"} = {}
            /\ Names(pipe.out.skill_focus) \cap {"dragonKills", "turretKills"} = {}

C11_Witness ==
    /\ pipe.stage = "finished" /\ pipe.out.kind = "result"
    /\ pipe.out.last_match_stats["turretKills"] > pipe.out.enemy_stats["turretKills"]
    /\ pipe.out.last_match_stats["dragonKills"] < pipe.out.enemy_stats["dragonKills"]
    /\ pipe.out.win_drivers # <<>>
    /\ pipe.out.skill_focus # <<>>

(***************************************************************************)
(* C14: a history shorter than the fixed minimum does not fail and gets no *)
(* model score: the run ends with a result flagged InsufficientHistory     *)
(* whose win_probability is wins / matches.                                *)
(***************************************************************************)
C14_InsufficientHistoryFallsBack ==
    LET h == pipe.history
        n == Len(h)
        wins == Cardinality({i \in 1..n : h[i]})
    IN  (pipe.stage = "finished" /\ n >= 1 /\ n < MinHistory) =>
            /\ pipe.out.kind = "result"
            /\ pipe.out.flag = "InsufficientHistory"
            /\ pipe.out.win_probability.den > 0
            /\ pipe.out.win_probability.num * n = wins * pipe.out.win_probability.den

C14_Witness ==
    /\ pipe.stage = "finished"
    /\ pipe.history = <<TRUE, FALSE, TRUE>>
    /\ pipe.out.kind = "result"
    /\ pipe.out.flag = "InsufficientHistory"
    /\ pipe.out.win_probability = [num |-> 2, den |-> 3]

(***************************************************************************)
(* C15: a history whose matches all have the same label does not fail: the *)
(* run ends with a result whose win_probability is the trivial value (1    *)
(* for all wins, 0 for all losses) and whose ImportanceMap is uniform; a    *)
(* history of sufficient size is flagged DegenerateLabelSet.               *)
(***************************************************************************)
C15_DegenerateLabelSet ==
    LET h == pipe.history
        n == Len(h)
    IN  (pipe.stage = "finished" /\ n >= 1 /\ \A i \in 1..n : h[i] = h[1]) =>
            /\ pipe.out.kind = "result"
            /\ pipe.out.win_probability.den > 0
            /\ pipe.out.win_probability.num =
                    (IF h[1] THEN pipe.out.win_probability.den ELSE 0)
            /\ \A f, g \in DOMAIN pipe.out.importances :
                    pipe.out.importances[f] = pipe.out.importances[g]
            /\ n >= MinHistory => pipe.out.flag = "DegenerateLabelSet"

C15_Witness ==
    /\ pipe.stage = "finished"
    /\ Len(pipe.history) = 6
    /\ \A i \in 1..6 : pipe.history[i]
    /\ pipe.out.kind = "result"
    /\ pipe.out.flag = "DegenerateLabelSet"
    /\ pipe.out.win_probability = [num |-> 1, den |-> 1]

(***************************************************************************)
(* C16: the Driver Analyzer starts only after both the Aggregator and the  *)
(* Model Trainer have completed, in whichever order these two start and    *)
(* complete; the progress events leave in pipeline order, so the loading   *)
(* screen of the client shows "Training AI Model" and "Analyzing           *)
(* Performance" before "Calculating Win Probability", and the final stage  *)
(* last.                                                                   *)
(***************************************************************************)
ClientStages(events) == [i \in 1..Len(events) |-> CurrentStageIndex(events[i].percent)]

C16_AnalyzerAfterAggregatorAndTrainer ==
    pipe.stage # "none" =>
        LET log == pipe.log
            st  == ClientStages(pipe.events)
        IN  /\ pipe.analyzer # "idle" =>
                pipe.aggregator = "done" /\ pipe.trainer = "done"
            /\ LogIndex(log, "derive") # 0 =>
                /\ LogIndex(log, "aggregated") \in 1..(LogIndex(log, "derive") - 1)
                /\ LogIndex(log, "trained") \in 1..(LogIndex(log, "derive") - 1)
            /\ \A i \in 1..(Len(st) - 1) : st[i] <= st[i + 1]
            /\ \A i \in 1..Len(st) :
                st[i] = 6 => \E j, k \in 1..(i - 1) : st[j] = 3 /\ st[k] = 4
            /\ \A i \in 1..Len(st) : st[i] = 8 => i = Len(st) /\ pipe.stage = "finished"
            /\ LogIndex(log, "derive") # 0 <=> (\E i \in 1..Len(st) : st[i] = 6)

C16_Witness ==
    /\ pipe.stage = "finished" /\ pipe.out.kind = "result"
    /\ LogIndex(pipe.log, "aggregate") < LogIndex(pipe.log, "train")
    /\ LogIndex(pipe.log, "trained") < LogIndex(pipe.log, "aggregated")
    /\ ClientStages(pipe.events) = <<2, 2, 3, 4, 6, 8>>

(***************************************************************************)
(* C21: for every percent in 0..100 the loading screen marks exactly one   *)
(* entry of LOADING_STAGES as current, namely the last stage whose         *)
(* minPercent is at most the percent; every earlier stage is completed and *)
(* every later one pending; the current index does not decrease when the   *)
(* percent grows, and the last stage is current from 98 on.                *)
(***************************************************************************)
CurrentStages == {k \in 1..Len(LOADING_STAGES) : view.stages[k] = "current"}

C21_ExactlyOneCurrentStage ==
    view.screen = "loading" =>
        /\ view.percent = dash.progress.percent
        /\ Cardinality(CurrentStages) = 1
        /\ \A k \in CurrentStages :
            /\ view.currentStageIndex = k - 1
            /\ LOADING_STAGES[k].minPercent <= view.percent
            /\ \A j \in (k + 1)..Len(LOADING_STAGES) :
                /\ LOADING_STAGES[j].minPercent > view.percent
                /\ view.stages[j] = "pending"
            /\ \A j \in 1..(k - 1) : view.stages[j] = "completed"
            /\ view.percent >= 98 => k = Len(LOADING_STAGES)
            /\ \A q \in Percents :
                q <= view.percent => CurrentStageIndex(q) <= view.currentStageIndex

C21_Witness ==
    /\ view.screen = "loading"
    /\ dash.progressBy = 1
    /\ view.percent = 77
    /\ view.stages[4] = "current"
    /\ view.stages[3] = "completed"
    /\ view.stages[5] = "pending"

(***************************************************************************)
(* C22: the Dashboard's loading flag is false only once an analyzeStats    *)
(* call of the Dashboard has settled, and it is false from then on; from   *)
(* then on the error screen is shown exactly when a call rejected or no    *)
(* call produced data; the result view is rendered only with error = null  *)
(* and data set, and never while loading is true.                          *)
(***************************************************************************)
SomeSettled == \E i \in 1..Len(reqs) : Settled(reqs[i])

SomeRejected == \E i \in 1..Len(reqs) : reqs[i].outcome.kind = "rejected"

SomeData ==
    \E i \in 1..Len(reqs) :
        reqs[i].outcome.kind = "resolved" /\ reqs[i].outcome.value # ""

Stale(i) == i < Len(reqs) \/ reqs[i].params # dash.params

Shown(d) == <<d.progress, d.data, d.error, d.loading>>

C26_StaleRequestIgnored ==
    /\ [][\A i \in 1..Len(reqs) :
            (Stale(i) /\ reqs'[i] # reqs[i]) => Shown(dash') = Shown(dash)]_vars
    /\ []((/\ view.screen = "result"
           /\ dash.deps = dash.params
           /\ \A i \in 1..Len(reqs) : Settled(reqs[i]))
          => (dash.dataBy = Len(reqs) /\ reqs[dash.dataBy].params = dash.params))

(***************************************************************************)
(* C23: building the trend series leaves the list behind the `data` prop   *)
(* as it was given, after any number of renders: the series is the list    *)
(* oldest first, `latest` is still the first (newest) match of the list,   *)
(* and the win rate and the average KDA are those of the given list.       *)
(***************************************************************************)
KdaOrZero(list) == [k \in 1..Len(list) |-> IF list[k].kda.num THEN list[k].kda.v ELSE 0]

WinsOf(list) == Cardinality({k \in 1..Len(list) : list[k].win})

C23_InputListUnchanged ==
    props.kind = "array" =>
        /\ data = props.list
        /\ (rendered /\ Len(props.list) > 0) =>
            /\ view.screen = "trends"
            /\ view.latest = props.list[1]
            /\ view.matches = Len(props.list)
            /\ view.avgKda = [num |-> SumOf(KdaOrZero(props.list)), den |-> Len(props.list)]
            /\ view.winRate = [num |-> 100 * WinsOf(props.list), den |-> Len(props.list)]
            /\ Len(chartData) = Len(props.list)
            /\ \A i \in 1..Len(chartData) :
                chartData[i].matchId = props.list[Len(props.list) + 1 - i].matchId

C23_Witness ==
    /\ rendered
    /\ view.screen = "trends"
    /\ view.renders = MaxRenders
    /\ Len(props.list) = 2
    /\ props.list[1].win /\ ~props.list[2].win
    /\ props.list[1].kda = Num(5) /\ props.list[2].kda = Num(2)
    /\ view.latest = props.list[1]
    /\ view.avgKda = [num |-> 7, den |-> 2]
    /\ view.winRate = [num |-> 100, den |-> 2]

(***************************************************************************)
(* C29: given an empty or missing match list (data = [], null or           *)
(* undefined) the component renders without throwing: the trend series is  *)
(* empty, the win rate and the average KDA are 0 and the "No match history *)
(* to analyze" placeholder is shown.                                       *)
(***************************************************************************)
C29_EmptyOrMissingList ==
    (rendered /\ (props.kind # "array" \/ Len(props.list) = 0)) =>
        /\ chartData = <<>>
        /\ view.screen = "trends"
        /\ view.winRate = Zero
        /\ view.avgKda = Zero
        /\ view.placeholder

C28_QuickLinkFillsSearchBar ==
    (home.page = "home" /\ home.clicked # NoLink) =>
        /\ home.bar.riotId = home.clicked.riotId
        /\ home.bar.region = home.clicked.region

(***************************************************************************)
(* C25: StatComparisonRow computes diff = userValue - enemyValue, negated  *)
(* when inverse is set.  When |diff| < 0.05 neither value is highlighted;  *)
(* the user value is green only when diff >= 0.05 and the enemy value red  *)
(* only when diff <= -0.05; the two are never highlighted together.        *)
(***************************************************************************)
C25_HighlightOnlyBeyondThreshold ==
    view.screen = "row" =>
        LET d == IF props.inverse THEN props.enemyValue - props.userValue
                 ELSE props.userValue - props.enemyValue
        IN  /\ view.diff = d
            /\ (d > -5 /\ d < 5) => (view.userClass # GREEN /\ view.enemyClass # RED)
            /\ view.userClass = GREEN => d >= 5
            /\ view.enemyClass = RED => d <= -5
            /\ ~(view.userClass = GREEN /\ view.enemyClass = RED)

(***************************************************************************)
(* C27: once ElectricMap has unmounted (its cleanup has run) no animation  *)
(* callback is pending, so none runs or is scheduled afterwards: neither   *)
(* `frame` nor the polling `start`, also when the unmount comes before     *)
(* both images have loaded.                                                *)
(***************************************************************************)
C27_NoCallbackAfterUnmount ==
    anim.phase = "unmounted" => anim.pending = NoCallback

====
